---- MODULE Spec2Model ----
(***************************************************************************)
(* The photo-to-panorama conversion engine of travelick: the               *)
(* PanoramaConverter class (validateImage, convertToPanorama and its four  *)
(* methods, getAvailableMethods, stitchImages and its layouts,             *)
(* generateThumbnail), the /api/conversion/validate handler with its       *)
(* getConversionRecommendations helper, the /api/conversion/convert and   *)
(* /api/conversion/stitch handlers, POST /api/tours with the tours store,  *)
(* and engine calls and tour-adding requests that overlap in time.         *)
(*                                                                         *)
(* JavaScript values are modelled as tagged records, so that 'unknown',    *)
(* undefined, null and NaN stay distinct from numbers; numbers are exact   *)
(* rationals n/d, so that 4096 / 3 is not silently an integer, and, where  *)
(* the code multiplies by a fraction such as 0.3, IEEE-754 doubles.        *)
(***************************************************************************)
EXTENDS Integers, Sequences, FiniteSets, TLC

VARIABLES
    sharp,      \* the module-level handle: JsNull or the loaded library
    op,         \* the engine operation / handler that ran last ("idle" between requests)
    image,      \* the file the operation was given
    method,     \* the method id convertToPanorama was given
    outcome,    \* what the operation produced: a returned value or a raised error
    calls,      \* the image-library calls the operation issued, in order
    file,       \* what the operation wrote to its output path
    recs,       \* the recommendations the validate handler sent
    served,     \* how many requests the process has answered
    inputs,     \* the files or buffers stitchImages / generateThumbnail was given, in order
    opts,       \* the options, or optional arguments, it was given
    steps,      \* what a handler did, in order: engine calls and file operations
    thumb,      \* what the thumbnail step of a handler did
    response,   \* the HTTP response a handler sent
    running,    \* the engine calls in flight at the same time, by caller
    disk,       \* what is at each output path
    accesses,   \* the shared locations the calls in flight have read and written
    tours,      \* the tours in data/tours.json, in order, by id
    requests    \* the tour-adding requests in flight at the same time, by client

vars ==
    <<sharp, op, image, method, outcome, calls, file, recs, served, inputs, opts,
      steps, thumb, response, running, disk, accesses, tours, requests>>

\* the state of one caller at a time
sequential ==
    <<op, image, method, outcome, calls, file, recs, served, inputs, opts,
      steps, thumb, response>>
\* the state of callers that overlap
concurrent == <<running, disk, accesses>>
\* the tours store and the requests writing it at the same time
store == <<tours, requests>>

----------------------------------------------------------------------------
(* JavaScript values *)

JsNum(k) == [t |-> "number", n |-> k, d |-> 1]
\* a / b on two integers, kept exact
JsDiv(a, b) == [t |-> "number", n |-> a, d |-> b]
JsStr(s) == [t |-> "string", s |-> s]
JsNaN == [t |-> "NaN"]
JsNull == [t |-> "null"]
JsUndefined == [t |-> "undefined"]
\* an object literal carries t |-> "object" next to its own fields

\* ToNumber: a non-numeric string and undefined convert to NaN
ToNumber(v) == IF v.t = "number" THEN v ELSE JsNaN

\* Number.isInteger
IsInteger(v) == v.t = "number" /\ v.n % v.d = 0

\* x / y
Divide(x, y) ==
    LET a == ToNumber(x)
        b == ToNumber(y)
    IN  IF a.t = "number" /\ b.t = "number" /\ b.n # 0
        THEN [t |-> "number", n |-> a.n * b.d, d |-> a.d * b.n]
        ELSE JsNaN

\* x < y; every comparison with NaN is false
Less(x, y) ==
    LET a == ToNumber(x)
        b == ToNumber(y)
    IN  a.t = "number" /\ b.t = "number" /\ a.n * b.d < b.n * a.d

Greater(x, y) == Less(y, x)

\* x >= y; false, not the negation of <, when either side is NaN
GreaterEq(x, y) ==
    LET a == ToNumber(x)
        b == ToNumber(y)
    IN  a.t = "number" /\ b.t = "number" /\ a.n * b.d >= b.n * a.d

\* !v
Falsy(v) == v.t \in {"null", "undefined", "NaN"}

JsTrue == [t |-> "boolean", b |-> TRUE]

\* a number that is not an exact fraction of small integers: the double x,
\* in the limbs defined below
JsDouble(x) == [t |-> "number", x |-> x]

----------------------------------------------------------------------------
(* JavaScript arithmetic on fractions that are not exact *)

\* The stitcher multiplies widths by 1 - overlap and sums the products.  These
\* are IEEE-754 doubles: every operation rounds its exact result to 53
\* significant bits, ties to even.  A double x with 0 <= x < 2^16 that is a
\* multiple of 2^-64 is held as the integer x * 2^64 in five 16-bit limbs,
\* least significant first, so limb 5 is the integer part of x.
Limb == 2^16

DblInt(k) == <<0, 0, 0, 0, k>>

\* the exact sum
DblSum(a, b) ==
    LET s1 == a[1] + b[1]
        s2 == a[2] + b[2] + s1 \div Limb
        s3 == a[3] + b[3] + s2 \div Limb
        s4 == a[4] + b[4] + s3 \div Limb
        s5 == a[5] + b[5] + s4 \div Limb
    IN  <<s1 % Limb, s2 % Limb, s3 % Limb, s4 % Limb, s5>>

\* the exact difference a - b, for a >= b
DblDiff(a, b) ==
    LET d1 == a[1] - b[1]
        d2 == a[2] - b[2] + d1 \div Limb
        d3 == a[3] - b[3] + d2 \div Limb
        d4 == a[4] - b[4] + d3 \div Limb
        d5 == a[5] - b[5] + d4 \div Limb
    IN  <<d1 % Limb, d2 % Limb, d3 % Limb, d4 % Limb, d5>>

\* the exact product of an integer k < 2^15 and a
DblTimes(k, a) ==
    LET p1 == k * a[1]
        p2 == k * a[2] + p1 \div Limb
        p3 == k * a[3] + p2 \div Limb
        p4 == k * a[4] + p3 \div Limb
        p5 == k * a[5] + p4 \div Limb
    IN  <<p1 % Limb, p2 % Limb, p3 % Limb, p4 % Limb, p5>>

DblLess(a, b) == \E i \in 1..5 : a[i] < b[i] /\ \A j \in (i + 1)..5 : a[j] = b[j]

\* 2^n as limbs
DblPow2(n) == [i \in 1..5 |-> IF i = (n \div 16) + 1 THEN 2^(n % 16) ELSE 0]

\* the number of significant bits of an integer below 2^30, and of limbs
Bits(x) == CHOOSE n \in 0..30 : x < 2^n /\ (n = 0 \/ x >= 2^(n - 1))
BitLength(a) ==
    IF \A i \in 1..5 : a[i] = 0 THEN 0
    ELSE LET top == CHOOSE i \in 1..5 : a[i] # 0 /\ \A j \in (i + 1)..5 : a[j] = 0
         IN  16 * (top - 1) + Bits(a[top])

\* the double nearest to an exact result: round to 53 bits, ties to even
Fl(a) ==
    LET s == BitLength(a) - 53
    IN  IF s <= 0 THEN a
        ELSE LET low == [i \in 1..5 |->
                            IF 16 * i <= s THEN a[i]
                            ELSE IF 16 * (i - 1) >= s THEN 0
                            ELSE a[i] % 2^(s - 16 * (i - 1))]
                 half == DblPow2(s - 1)
                 down == DblDiff(a, low)
                 up == DblSum(down, DblPow2(s))
                 odd == (a[(s \div 16) + 1] \div 2^(s % 16)) % 2 = 1
             IN  IF DblLess(low, half) THEN down
                 ELSE IF DblLess(half, low) THEN up
                 ELSE IF odd THEN up ELSE down

\* a + b, a - b and k * a as JavaScript computes them
Plus(a, b) == Fl(DblSum(a, b))
Minus(a, b) == Fl(DblDiff(a, b))
Times(k, a) == Fl(DblTimes(k, a))

\* Math.round: the nearest integer, a half rounding up
MathRound(a) == a[5] + (IF a[4] >= 32768 THEN 1 ELSE 0)

----------------------------------------------------------------------------
(* Program constants *)

panoramaWidth == 4096
panoramaHeight == 2048
MinWidth == 800
MinHeight == 600
MaxFileSize == 50 * 1024 * 1024
HighResWidth == 2048

----------------------------------------------------------------------------
(* Inputs *)

\* the requests one run of the process is followed for
MaxRequests == 2

\* widths and heights around every threshold the code compares against
Widths == {400, 799, 800, 1200, 1201, 2047, 2048, 2400, 2401}
Heights == {300, 599, 600, 1000, 1001, 1600, 1601}
\* file sizes in bytes: 1 MB, exactly 50 MiB, one byte more, 60 MiB
FileSizes == {1000000, 52428800, 52428801, 62914560}

\* a file on disk: its pixel size, its byte size, and whether it decodes
Images ==
    [width : Widths, height : Heights, size : {1000000}, decodable : {FALSE}]
    \cup [width : Widths, height : Heights, size : FileSizes, decodable : {TRUE}]

NoImage == [width |-> 0, height |-> 0, size |-> 0, decodable |-> FALSE]

\* the most images one stitching request names
MaxImages == 3

\* pixel sizes of the files to stitch: landscape and portrait, with widths and
\* heights whose 0.7-fold is a whole number (1000, 500), ends in .5 (805, 1365)
\* or in neither (3402)
StitchSizes ==
    {[width |-> 1000, height |-> 500], [width |-> 1365, height |-> 805],
     [width |-> 805, height |-> 3402], [width |-> 3402, height |-> 1365]}

\* a file to stitch: "ok", "missing" (readFile rejects) or "corrupt"
\* (metadata() rejects)
StitchFile(size, state) == [width |-> size.width, height |-> size.height, state |-> state]

\* lists of up to MaxImages files: all of them fine, or one of them not
ImageLists ==
    UNION {[1..n -> {StitchFile(sz, "ok") : sz \in StitchSizes}]
           \cup {[i \in 1..n |-> StitchFile([width |-> 1000, height |-> 500],
                                            IF i = k THEN st ELSE "ok")] :
                    k \in 1..n, st \in {"missing", "corrupt"}} :
           n \in 0..MaxImages}

\* overlaps a caller passes: 0, 0.3 (the double 0x1.3333333333333p-2) and 0.5
Overlaps ==
    {<<0, 0, 0, 0, 0>>, <<52224, 52428, 52428, 19660, 0>>, <<0, 0, 0, 32768, 0>>}

Layouts == {"horizontal", "vertical", "panoramic"}

\* the options object: a layout or an unsupported one or none, an overlap or none
StitchOptions ==
    [method : {JsUndefined} \cup {JsStr(m) : m \in Layouts \cup {"grid"}},
     overlap : {JsUndefined} \cup {JsDouble(x) : x \in Overlaps}]

NoOptions == [method |-> JsUndefined, overlap |-> JsUndefined]

\* the tour initializeDB creates, and the ids of the tours added later: a
\* fresh number stands for each uuid
DemoTour == 0

\* the most tour-adding requests in flight at the same time
MaxClients == 2
Clients == 1..MaxClients
\* the tours one run of the process is asked to add
MaxTours == 2
\* the routes that add a tour
TourRoutes == {"POST /api/tours", "POST /api/conversion/stitch"}

\* the most engine calls in flight at the same time
MaxCalls == 2
Callers == 1..MaxCalls

\* the uploads concurrent calls read and the output paths they are given
InputPaths == {"upload_1.jpg", "upload_2.jpg"}
Destinations == {"panorama_1.jpg", "panorama_2.jpg"}
\* what is at each input path: a photo that validates, a file that is no image
Uploaded(path) ==
    IF path = "upload_1.jpg"
    THEN [width |-> 1200, height |-> 1000, size |-> 1000000, decodable |-> TRUE]
    ELSE [width |-> 400, height |-> 300, size |-> 1000000, decodable |-> FALSE]
\* the two files a concurrent stitchImages call names
StitchedFiles ==
    <<StitchFile([width |-> 1000, height |-> 500], "ok"),
      StitchFile([width |-> 1365, height |-> 805], "ok")>>
StitchedPath(i) == IF i = 1 THEN "image_1.jpg" ELSE "image_2.jpg"

Methods == {"perspective", "cylindrical", "tile_repeat", "ai_depth"}
\* method ids a request body can carry: the four known ones and two others
MethodIds == Methods \cup {"fisheye", ""}

----------------------------------------------------------------------------
(* The image library, as the engine sees it *)

\* The library builds a process can have loaded.  fractional: what resize and
\* extend do with a size that is not an integer (sharp validates its
\* arguments and rejects it; a build that truncated instead is allowed for as
\* well).  sizeOfFile: whether metadata() of a file path carries the byte size
\* (sharp reports size for Buffer and Stream input only).  The build that
\* rejects a fractional size is also the one that rejects an overlay larger
\* than the canvas it is composited onto; the truncating build clips it.
SharpBuilds == [fractional : {"reject", "truncate"}, sizeOfFile : BOOLEAN]

Loaded(b) == [t |-> "object", fractional |-> b.fractional, sizeOfFile |-> b.sizeOfFile]

\* An error message is the sequence of its parts: the code builds
\* `${prefix}: ${error.message}`, so a wrapped error is <<prefix>> \o cause.
DecodeError == <<"Input file contains unsupported image format">>
IntegerError == <<"Expected positive integer">>
NoError == <<>>

\* sharp(imagePath).metadata() of a decodable file
Metadata(img) ==
    [width |-> JsNum(img.width),
     height |-> JsNum(img.height),
     format |-> JsStr("jpeg"),
     size |-> IF sharp.sizeOfFile THEN JsNum(img.size) ELSE JsUndefined]

----------------------------------------------------------------------------
(* PanoramaConverter.validateImage *)

\* a message, with the underlying error's message where the code interpolates one
Msg(text, cause) == <<text>> \o cause

ResolutionIssue == Msg("Image resolution too low (minimum 800x600)", NoError)
AspectIssue == Msg("Unusual aspect ratio may not convert well", NoError)
SizeIssue == Msg("File size too large (maximum 50MB)", NoError)
LimitedIssue == Msg("Sharp module not available - image validation limited", NoError)
ValidationFailed(cause) == Msg("Image validation failed", cause)

\* variant of FallbackReport: the degraded report marked invalid
FallbackReportInvalid ==
    [isValid |-> FALSE,
     issues |-> <<LimitedIssue>>,
     metadata |-> [t |-> "object", width |-> JsStr("unknown"), height |-> JsStr("unknown"),
                   format |-> JsStr("unknown"), size |-> JsStr("unknown")]]

\* the report returned when the library is not loaded
FallbackReport ==
    [isValid |-> TRUE,
     issues |-> <<LimitedIssue>>,
     metadata |-> [t |-> "object", width |-> JsStr("unknown"), height |-> JsStr("unknown"),
                   format |-> JsStr("unknown"), size |-> JsStr("unknown")]]

\* the validations object as first built
InitialReport(metadata) ==
    [isValid |-> TRUE,
     issues |-> <<>>,
     metadata |-> [t |-> "object", width |-> metadata.width, height |-> metadata.height,
                   format |-> metadata.format, size |-> metadata.size]]

\* // Check minimum resolution
ResolutionCheck(v, metadata) ==
    IF Less(metadata.width, JsNum(MinWidth)) \/ Less(metadata.height, JsNum(MinHeight))
    THEN [v EXCEPT !.issues = Append(@, ResolutionIssue), !.isValid = FALSE]
    ELSE v

\* variant of AspectCheck: the warning also clears isValid
AspectCheckInvalidates(v, metadata) ==
    LET aspectRatio == Divide(metadata.width, metadata.height)
    IN  IF Less(aspectRatio, JsDiv(1, 2)) \/ Greater(aspectRatio, JsNum(4))
        THEN [v EXCEPT !.issues = Append(@, AspectIssue), !.isValid = FALSE]
        ELSE v

\* // Check aspect ratio
AspectCheck(v, metadata) ==
    LET aspectRatio == Divide(metadata.width, metadata.height)
    IN  IF Less(aspectRatio, JsDiv(1, 2)) \/ Greater(aspectRatio, JsNum(4))
        THEN [v EXCEPT !.issues = Append(@, AspectIssue)]
        ELSE v

\* // Check file size
SizeCheck(v, metadata) ==
    IF Greater(metadata.size, JsNum(MaxFileSize))
    THEN [v EXCEPT !.issues = Append(@, SizeIssue), !.isValid = FALSE]
    ELSE v

\* the catch block: metadata() rejected
DecodeFailureReport(cause) ==
    [isValid |-> FALSE, issues |-> <<ValidationFailed(cause)>>, metadata |-> JsNull]

validateImage(img) ==
    IF Falsy(sharp)
    THEN FallbackReport
    ELSE IF ~img.decodable
         THEN DecodeFailureReport(DecodeError)
         ELSE LET metadata == Metadata(img)
              IN  SizeCheck(AspectCheck(ResolutionCheck(InitialReport(metadata), metadata),
                                        metadata), metadata)

----------------------------------------------------------------------------
(* getConversionRecommendations and POST /api/conversion/validate *)

Recommendation(m, reason) == [method |-> m, reason |-> reason]

WideRec == Recommendation("perspective", "Wide aspect ratio works well with perspective projection")
TallRec == Recommendation("cylindrical", "Tall images work better with cylindrical projection")
StandardRec ==
    Recommendation("perspective", "Standard aspect ratio - perspective projection recommended")
HighResRec == Recommendation("ai_depth", "High resolution image suitable for AI-enhanced conversion")

\* variant of AspectRecommendation: >= 2 for > 2
AspectRecommendationGe(width, height) ==
    LET aspectRatio == Divide(width, height)
    IN  IF GreaterEq(aspectRatio, JsNum(2)) THEN <<WideRec>>
        ELSE IF Less(aspectRatio, JsDiv(4, 5)) THEN <<TallRec>>
        ELSE <<StandardRec>>

\* the if / else if / else on aspectRatio (0.8 is 4/5)
AspectRecommendation(width, height) ==
    LET aspectRatio == Divide(width, height)
    IN  IF Greater(aspectRatio, JsNum(2)) THEN <<WideRec>>
        ELSE IF Less(aspectRatio, JsDiv(4, 5)) THEN <<TallRec>>
        ELSE <<StandardRec>>

\* if (width >= 2048)
HighResRecommendation(width) ==
    IF GreaterEq(width, JsNum(HighResWidth)) THEN <<HighResRec>> ELSE <<>>

getConversionRecommendations(validation) ==
    IF Falsy(validation.metadata)
    THEN <<>>
    ELSE AspectRecommendation(validation.metadata.width, validation.metadata.height)
         \o HighResRecommendation(validation.metadata.width)

----------------------------------------------------------------------------
(* Outcomes of an asynchronous call *)

Return(v) == [kind |-> "return", value |-> v]
Throw(text, cause) == [kind |-> "throw", error |-> Msg(text, cause)]
NoOutcome == [kind |-> "none"]

----------------------------------------------------------------------------
(* Image-library pipelines *)

ResizeCall(w, h, fit) == [fn |-> "resize", sizes |-> <<w, h>>, opt |-> fit]
\* sizes: top, bottom, left, right
ExtendCall(top, bottom, left, right, bg) ==
    [fn |-> "extend", sizes |-> <<top, bottom, left, right>>, opt |-> bg]
ModulateCall == [fn |-> "modulate", sizes |-> <<>>, opt |-> "brightness 1.1 saturation 1.2"]
JpegCall(q) == [fn |-> "jpeg", sizes |-> <<>>, opt |-> q]
MetadataCall == [fn |-> "metadata", sizes |-> <<>>, opt |-> ""]
CreateCall(w, h) == [fn |-> "create", sizes |-> <<w, h>>, opt |-> "black"]
CompositeCall == [fn |-> "composite", sizes |-> <<>>, opt |-> "tiles"]

\* the library refuses a call that carries a size which is not a number, and
\* (unless it is the truncating build) one which is not an integer
Rejected(c) ==
    \E i \in DOMAIN c.sizes :
        \/ c.sizes[i].t # "number"
        \/ sharp.fractional = "reject" /\ ~IsInteger(c.sizes[i])

\* the whole pixels the library makes of a size it accepted
Pixels(v) == v.n \div v.d

\* the calls of a pipeline that are made: up to the first one refused
Issued(pipeline) ==
    IF \E i \in DOMAIN pipeline : Rejected(pipeline[i])
    THEN SubSeq(pipeline, 1, CHOOSE i \in DOMAIN pipeline :
                                /\ Rejected(pipeline[i])
                                /\ \A j \in 1..(i - 1) : ~Rejected(pipeline[j]))
    ELSE pipeline

\* the error a pipeline on img ends with: the file does not decode (metadata()
\* rejects first), or a call is refused
PipelineError(img, pipeline) ==
    IF ~img.decodable THEN DecodeError
    ELSE IF \E i \in DOMAIN pipeline : Rejected(pipeline[i]) THEN IntegerError
    ELSE NoError

\* a layer painted on the output: which buffer, where, and how large
Layer(input, left, top, w, h) ==
    [input |-> input, left |-> left, top |-> top, width |-> w, height |-> h]

NoPad == [top |-> 0, bottom |-> 0, left |-> 0, right |-> 0]
NoFile == [written |-> FALSE, width |-> 0, height |-> 0, layers |-> <<>>, pad |-> NoPad]

\* resize(w, h, cover) then extend(pad): the resized source inside its border
Extended(w, h, top, bottom, left, right) ==
    [written |-> TRUE,
     width |-> Pixels(w) + Pixels(left) + Pixels(right),
     height |-> Pixels(h) + Pixels(top) + Pixels(bottom),
     layers |-> <<Layer("source", Pixels(left), Pixels(top), Pixels(w), Pixels(h))>>,
     pad |-> [top |-> Pixels(top), bottom |-> Pixels(bottom),
              left |-> Pixels(left), right |-> Pixels(right)]]

\* create(w, h) then composite(overlays)
Composited(w, h, overlays) ==
    [written |-> TRUE, width |-> Pixels(w), height |-> Pixels(h),
     layers |-> overlays, pad |-> NoPad]

\* what one engine method did: its outcome, the library calls, the output file
Did(o, c, f) == [outcome |-> o, calls |-> c, file |-> f]

SharpMissing ==
    "Sharp module not available. Please install it with: npm install --platform=win32 --arch=x64 sharp"


----------------------------------------------------------------------------
(* PanoramaConverter.convertToPanorama and its methods *)

ConversionResult(m, dimensions, message) ==
    [success |-> TRUE, method |-> m, dimensions |-> dimensions, message |-> message]

\* the sizes perspectiveConversion passes to resize and extend
PerspectiveGeometry ==
    [width |-> JsDiv(panoramaWidth, 3), height |-> JsDiv(panoramaHeight, 2),
     top |-> JsDiv(panoramaHeight, 4), bottom |-> JsDiv(panoramaHeight, 4),
     left |-> JsDiv(panoramaWidth, 3), right |-> JsDiv(panoramaWidth, 3)]

\* the sizes cylindricalProjection passes to resize and extend
CylindricalGeometry ==
    [width |-> JsNum(panoramaWidth), height |-> JsDiv(panoramaHeight, 2),
     top |-> JsDiv(panoramaHeight, 4), bottom |-> JsDiv(panoramaHeight, 4),
     left |-> JsNum(0), right |-> JsNum(0)]

PerspectiveDimensions(img) == [width |-> panoramaWidth, height |-> panoramaHeight]

\* variant of CylindricalDimensions: the size of the source reported
CylindricalDimensionsOfSource(img) == [width |-> img.width, height |-> img.height]

CylindricalDimensions(img) == [width |-> panoramaWidth, height |-> panoramaHeight]

TileRepeatDimensions(img) == [width |-> panoramaWidth, height |-> panoramaHeight]

\* Method 1
perspectiveConversion(img) ==
    IF Falsy(sharp)
    THEN Did(Throw(SharpMissing, NoError), <<>>, NoFile)
    ELSE LET g == PerspectiveGeometry
             pipeline == <<MetadataCall,
                           ResizeCall(g.width, g.height, "cover center"),
                           ExtendCall(g.top, g.bottom, g.left, g.right, "black"),
                           JpegCall("quality 90")>>
             error == PipelineError(img, pipeline)
         IN  IF ~img.decodable
             THEN Did(Throw("Perspective conversion failed", error), <<MetadataCall>>, NoFile)
             ELSE IF error # NoError
             THEN Did(Throw("Perspective conversion failed", error), Issued(pipeline), NoFile)
             ELSE Did(Return(ConversionResult("perspective", PerspectiveDimensions(img),
                                              "Converted using perspective projection")),
                      pipeline,
                      Extended(g.width, g.height, g.top, g.bottom, g.left, g.right))

\* variant of aiDepthConversion: a result of its own in place of perspective's
aiDepthConversionOwnResult(img) ==
    LET r == perspectiveConversion(img)
    IN  IF r.outcome.kind = "throw"
        THEN [r EXCEPT !.outcome = Throw("AI depth conversion failed", r.outcome.error)]
        ELSE [r EXCEPT !.outcome = Return(ConversionResult("ai_depth",
                                              r.outcome.value.dimensions,
                                              "Converted using AI depth estimation"))]

\* Method 2: the placeholder that calls Method 1 and wraps its error
aiDepthConversion(img) ==
    LET r == perspectiveConversion(img)
    IN  IF r.outcome.kind = "throw"
        THEN [r EXCEPT !.outcome = Throw("AI depth conversion failed", r.outcome.error)]
        ELSE r

\* Method 3
cylindricalProjection(img) ==
    IF Falsy(sharp)
    THEN Did(Throw(SharpMissing, NoError), <<>>, NoFile)
    ELSE LET g == CylindricalGeometry
             pipeline == <<MetadataCall,
                           ResizeCall(g.width, g.height, "cover"),
                           ExtendCall(g.top, g.bottom, g.left, g.right, "gray 50"),
                           ModulateCall,
                           JpegCall("quality 90")>>
             error == PipelineError(img, pipeline)
         IN  IF ~img.decodable
             THEN Did(Throw("Cylindrical conversion failed", error), <<MetadataCall>>, NoFile)
             ELSE IF error # NoError
             THEN Did(Throw("Cylindrical conversion failed", error), Issued(pipeline), NoFile)
             ELSE Did(Return(ConversionResult("cylindrical", CylindricalDimensions(img),
                                              "Converted using cylindrical projection")),
                      pipeline,
                      Extended(g.width, g.height, g.top, g.bottom, g.left, g.right))

tileWidth == JsDiv(panoramaWidth, 4)
tileHeight == JsNum(panoramaHeight)

\* variant of Tiles: the loop counting from 1
TilesShifted ==
    [k \in 1..4 |->
        Layer("tileBuffer", k * Pixels(tileWidth), 0, Pixels(tileWidth), Pixels(tileHeight))]

\* for (let i = 0; i < 4; i++) tiles.push({input: tileBuffer, left: i * tileWidth, top: 0});
\* entry k of the list is the tile pushed with i = k - 1
Tiles ==
    [k \in 1..4 |->
        Layer("tileBuffer", (k - 1) * Pixels(tileWidth), 0, Pixels(tileWidth), Pixels(tileHeight))]

\* Method 4
tileRepeatMethod(img) ==
    IF Falsy(sharp)
    THEN Did(Throw(SharpMissing, NoError), <<>>, NoFile)
    ELSE LET pipeline == <<MetadataCall,
                           ResizeCall(tileWidth, tileHeight, "cover"),
                           JpegCall("default"),
                           CreateCall(JsNum(panoramaWidth), JsNum(panoramaHeight)),
                           CompositeCall,
                           JpegCall("quality 90")>>
             error == PipelineError(img, pipeline)
         IN  IF ~img.decodable
             THEN Did(Throw("Tile repeat conversion failed", error), <<MetadataCall>>, NoFile)
             ELSE IF error # NoError
             THEN Did(Throw("Tile repeat conversion failed", error), Issued(pipeline), NoFile)
             ELSE Did(Return(ConversionResult("tile_repeat", TileRepeatDimensions(img),
                                              "Converted using tile repeat method")),
                      pipeline,
                      Composited(JsNum(panoramaWidth), JsNum(panoramaHeight), Tiles))

\* variant of DefaultCase: falling back to the cylindrical method
DefaultCaseCylindrical(img) == cylindricalProjection(img)

\* default: of the switch
DefaultCase(img) == perspectiveConversion(img)

\* the switch; the catch logs and rethrows the error unchanged
convertToPanorama(img, m) ==
    CASE m = "perspective" -> perspectiveConversion(img)
      [] m = "ai_depth" -> aiDepthConversion(img)
      [] m = "cylindrical" -> cylindricalProjection(img)
      [] m = "tile_repeat" -> tileRepeatMethod(img)
      [] OTHER -> DefaultCase(img)

----------------------------------------------------------------------------
(* PanoramaConverter.getAvailableMethods *)

\* one entry of the list; a key the literal does not have reads as undefined
MethodDescriptor(id, name, description, quality, speed, recommended, premium) ==
    [id |-> id, name |-> name, description |-> description, quality |-> quality,
     speed |-> speed, recommended |-> recommended, premium |-> premium]

PerspectiveDescriptor ==
    MethodDescriptor("perspective", "Perspective Projection",
                     "Fast conversion using perspective projection",
                     "Good", "Fast", JsTrue, JsUndefined)
CylindricalDescriptor ==
    MethodDescriptor("cylindrical", "Cylindrical Projection",
                     "Creates cylindrical panorama effect",
                     "Good", "Fast", JsUndefined, JsUndefined)
TileRepeatDescriptor ==
    MethodDescriptor("tile_repeat", "Tile Repeat",
                     "Repeats image to create panorama pattern",
                     "Basic", "Very Fast", JsUndefined, JsUndefined)
AiDepthDescriptor ==
    MethodDescriptor("ai_depth", "AI Depth Conversion",
                     "AI-powered depth-aware conversion (Premium)",
                     "Excellent", "Slow", JsUndefined, JsTrue)

\* variant of getAvailableMethods: the premium method listed first
getAvailableMethodsPremiumFirst ==
    <<AiDepthDescriptor, PerspectiveDescriptor, CylindricalDescriptor, TileRepeatDescriptor>>

\* the array literal; the method does not look at the library handle
getAvailableMethods ==
    <<PerspectiveDescriptor, CylindricalDescriptor, TileRepeatDescriptor, AiDepthDescriptor>>

----------------------------------------------------------------------------
(* PanoramaConverter.stitchImages: loading the images, and the horizontal layout *)

\* const { method = 'horizontal', ... } = options: the default stands in for
\* undefined only
Default(v, d) == IF v.t = "undefined" THEN d ELSE v

\* the literal 0.1, the double 0x1.999999999999ap-4
DefaultOverlap == JsDouble(<<39424, 39321, 39321, 6553, 0>>)

\* method + '_fallback' and the like: a string built from two parts
JsConcat(a, b) == [t |-> "string", s |-> a, suffix |-> b]

\* a Buffer: the bytes of input file i, or what a library pipeline encoded
FileBytes(i) == [t |-> "buffer", content |-> "file", index |-> i]
Encoded(what) == [t |-> "buffer", content |-> what, index |-> 0]

ReadFileCall(i) == [fn |-> "readFile", sizes |-> <<JsNum(i)>>, opt |-> ""]

\* fs.readFile of a path that is not there, and composite() of an overlay
\* larger than the canvas
ReadError == <<"ENOENT: no such file or directory">>
OversizeError == <<"Image to composite must have same dimensions or smaller">>

Raise(error) == [kind |-> "throw", error |-> error]

\* the first image that cannot be loaded, 0 when all can
FirstUnloadable(images) ==
    IF \A i \in DOMAIN images : images[i].state = "ok" THEN 0
    ELSE CHOOSE i \in DOMAIN images :
            images[i].state # "ok" /\ \A j \in 1..(i - 1) : images[j].state = "ok"

\* the for-of loop of readFile and metadata(), which ends at the first rejection
LoadCalls(images) ==
    LET bad == FirstUnloadable(images)
        last == IF bad = 0 THEN Len(images) ELSE bad
        ofImage(i) == IF images[i].state = "missing"
                      THEN <<ReadFileCall(i)>>
                      ELSE <<ReadFileCall(i), MetadataCall>>
        upTo[i \in 0..last] == IF i = 0 THEN <<>> ELSE upTo[i - 1] \o ofImage(i)
    IN  upTo[last]

LoadError(images) ==
    LET bad == FirstUnloadable(images)
    IN  IF bad = 0 THEN NoError
        ELSE IF images[bad].state = "missing" THEN ReadError ELSE DecodeError

\* total += size * (1 - overlap), over the first i sizes
RECURSIVE Accumulated(_, _, _)
Accumulated(sizes, overlap, i) ==
    IF i = 0 THEN DblInt(0)
    ELSE Plus(Accumulated(sizes, overlap, i - 1),
              Times(sizes[i], Minus(DblInt(1), overlap)))

\* d / 2 for an integer d >= 0
Halved(d) == <<0, 0, 0, (d % 2) * 32768, d \div 2>>

Max(S) == CHOOSE m \in S : \A k \in S : k <= m

\* the library refuses an overlay that is larger than the canvas; a build
\* that validates its arguments less (see SharpBuilds) clips it
Oversize(canvas, overlays) ==
    /\ sharp.fractional = "reject"
    /\ \E i \in DOMAIN overlays :
        overlays[i].width > canvas.width \/ overlays[i].height > canvas.height

\* Math.round(totalWidth), after "Add back the overlap for the last image"
HorizontalWidth(widths, overlap) ==
    MathRound(Plus(Accumulated(widths, overlap, Len(widths)),
                   Times(widths[Len(widths)], overlap)))

\* the overlays loop: left has advanced by width * (1 - overlap) for each
\* image before image i
HorizontalOverlays(images, overlap, maxHeight) ==
    LET widths == [i \in DOMAIN images |-> images[i].width]
    IN  [i \in DOMAIN images |->
            Layer(FileBytes(i),
                  MathRound(Accumulated(widths, overlap, i - 1)),
                  MathRound(Halved(maxHeight - images[i].height)),
                  images[i].width, images[i].height)]

\* what both layouts do once canvas and overlays are known: create the canvas,
\* composite the overlays onto it, encode as JPEG
CompositeOnto(images, canvas, overlays) ==
    IF LoadError(images) # NoError
    THEN Did(Raise(LoadError(images)), LoadCalls(images), NoFile)
    ELSE IF Oversize(canvas, overlays)
    THEN Did(Raise(OversizeError),
             LoadCalls(images) \o <<CreateCall(JsNum(canvas.width), JsNum(canvas.height)),
                                    CompositeCall>>,
             NoFile)
    ELSE Did(Return([buffer |-> Encoded("stitched"),
                     dimensions |-> [width |-> JsNum(canvas.width),
                                     height |-> JsNum(canvas.height)]]),
             LoadCalls(images) \o <<CreateCall(JsNum(canvas.width), JsNum(canvas.height)),
                                    CompositeCall, JpegCall("quality")>>,
             Composited(JsNum(canvas.width), JsNum(canvas.height), overlays))

\* maxHeight = Math.max(maxHeight, metadata.height), from 0
MaxHeight(images) == Max({0} \cup {images[i].height : i \in DOMAIN images})

horizontalStitch(images, overlap) ==
    CompositeOnto(images,
                  [width |-> HorizontalWidth([i \in DOMAIN images |-> images[i].width], overlap),
                   height |-> MaxHeight(images)],
                  HorizontalOverlays(images, overlap, MaxHeight(images)))

----------------------------------------------------------------------------
(* The vertical and panoramic layouts, the fallback, and stitchImages itself *)

\* variant of VerticalHeight: the last image's overlap not added back
VerticalHeightShort(heights, overlap) ==
    MathRound(Accumulated(heights, overlap, Len(heights)))

\* Math.round(totalHeight)
VerticalHeight(heights, overlap) ==
    MathRound(Plus(Accumulated(heights, overlap, Len(heights)),
                   Times(heights[Len(heights)], overlap)))

\* the overlays loop of verticalStitch
VerticalOverlays(images, overlap, maxWidth) ==
    LET heights == [i \in DOMAIN images |-> images[i].height]
    IN  [i \in DOMAIN images |->
            Layer(FileBytes(i),
                  MathRound(Halved(maxWidth - images[i].width)),
                  MathRound(Accumulated(heights, overlap, i - 1)),
                  images[i].width, images[i].height)]

\* maxWidth = Math.max(maxWidth, metadata.width), from 0
MaxWidth(images) == Max({0} \cup {images[i].width : i \in DOMAIN images})

verticalStitch(images, overlap) ==
    CompositeOnto(images,
                  [width |-> MaxWidth(images),
                   height |-> VerticalHeight([i \in DOMAIN images |-> images[i].height], overlap)],
                  VerticalOverlays(images, overlap, MaxWidth(images)))

\* variant of PanoramicTarget: the stitched width kept as it is
PanoramicTargetUnscaled(width) ==
    [width |-> JsNum(width), height |-> JsDiv(width, 2)]

\* targetWidth = Math.max(width, 4096); targetHeight = targetWidth / 2
PanoramicTarget(width) ==
    LET targetWidth == Max({width, 4096})
    IN  [width |-> JsNum(targetWidth), height |-> JsDiv(targetWidth, 2)]

\* resize(w, h, fill) of the stitched strip
Resized(w, h) ==
    [written |-> TRUE, width |-> Pixels(w), height |-> Pixels(h),
     layers |-> <<Layer(Encoded("stitched"), 0, 0, Pixels(w), Pixels(h))>>, pad |-> NoPad]

\* the resize of the stitched strip to the target, and the result
ResizeTo(horizontalResult, target) ==
    IF Rejected(ResizeCall(target.width, target.height, "fill"))
    THEN Did(Raise(IntegerError),
             horizontalResult.calls \o <<ResizeCall(target.width, target.height, "fill")>>,
             NoFile)
    ELSE Did(Return([buffer |-> Encoded("panorama"), dimensions |-> target]),
             horizontalResult.calls \o <<ResizeCall(target.width, target.height, "fill"),
                                         JpegCall("quality")>>,
             Resized(target.width, target.height))

\* the steps after horizontalStitch; its rejection is panoramicStitch's
Panoramic(horizontalResult) ==
    IF horizontalResult.outcome.kind = "throw" THEN horizontalResult
    ELSE ResizeTo(horizontalResult,
                  PanoramicTarget(horizontalResult.outcome.value.dimensions.width.n))

panoramicStitch(images, overlap) == Panoramic(horizontalStitch(images, overlap))

\* what stitchImages resolves to
StitchSuccess(imageData, dimensions, m) ==
    [success |-> TRUE, imageData |-> imageData, dimensions |-> dimensions,
     method |-> m, error |-> NoError]
StitchFailure(error) ==
    [success |-> FALSE, imageData |-> JsUndefined, dimensions |-> JsUndefined,
     method |-> JsUndefined, error |-> error]

TooFewImages == Msg("At least 2 images required for stitching", NoError)
UnsupportedMethod(m) == Msg("Unsupported stitching method", <<m>>)

\* variant of TooFew: one image is enough
TooFewBelowOne(images) == Len(images) < 1

\* if (images.length < 2)
TooFew(images) == Len(images) < 2

\* variant of Caught: the error thrown on
CaughtRethrown(r, text) == r

\* the catch block: error.message || text, returned as a failure
Caught(r, text) ==
    IF r.outcome.kind = "throw"
    THEN [r EXCEPT !.outcome =
            Return(StitchFailure(IF r.outcome.error \in {<<>>, <<"">>}
                                 THEN <<text>> ELSE r.outcome.error))]
    ELSE r

\* variant of createBasicPanorama: a buffer of its own returned
createBasicPanoramaOwn(imageData) == Encoded("panorama")

\* "we'll return the original image"
createBasicPanorama(imageData) == imageData

\* the dimensions the fallback reports
FallbackDimensions == [width |-> JsNum(4096), height |-> JsNum(2048)]

\* the body of fallbackStitch's try block
FallbackBody(images, options) ==
    LET m == Default(options.method, JsStr("horizontal"))
    IN  IF TooFew(images)
        THEN Did(Return(StitchFailure(TooFewImages)), <<>>, NoFile)
        ELSE IF images[1].state = "missing"
        THEN Did(Raise(ReadError), <<ReadFileCall(1)>>, NoFile)
        ELSE Did(Return(StitchSuccess(createBasicPanorama(FileBytes(1)),
                                      FallbackDimensions,
                                      JsConcat(m.s, "_fallback"))),
                 <<ReadFileCall(1)>>, NoFile)

fallbackStitch(images, options) == Caught(FallbackBody(images, options), "Fallback stitching failed")

\* a layout's { buffer, dimensions } made the result of stitchImages
Stitched(r, m) ==
    IF r.outcome.kind = "throw" THEN r
    ELSE [r EXCEPT !.outcome = Return(StitchSuccess(r.outcome.value.buffer,
                                                    r.outcome.value.dimensions, m))]

\* the body of stitchImages' try block
StitchBody(images, options) ==
    IF Falsy(sharp)
    THEN fallbackStitch(images, options)
    ELSE LET m == Default(options.method, JsStr("horizontal"))
             overlap == Default(options.overlap, DefaultOverlap)
         IN  IF TooFew(images)
             THEN Did(Return(StitchFailure(TooFewImages)), <<>>, NoFile)
             ELSE CASE m.s = "horizontal" -> Stitched(horizontalStitch(images, overlap.x), m)
                    [] m.s = "vertical" -> Stitched(verticalStitch(images, overlap.x), m)
                    [] m.s = "panoramic" -> Stitched(panoramicStitch(images, overlap.x), m)
                    [] OTHER -> Did(Return(StitchFailure(UnsupportedMethod(m.s))), <<>>, NoFile)

stitchImages(images, options) == Caught(StitchBody(images, options), "Failed to stitch images")

----------------------------------------------------------------------------
(* PanoramaConverter.generateThumbnail and POST /api/conversion/convert *)

\* The class body defines generateThumbnail twice: (panoramaPath, thumbnailPath)
\* first and (imageBuffer, width = 300, height = 200) last.  A later method
\* definition replaces an earlier one of the same name, so every call of
\* panoramaConverter.generateThumbnail runs the last one; this is it.
ThumbnailOf(imageBuffer, resize) ==
    IF imageBuffer = Encoded("garbage")
    THEN Did(Raise(DecodeError), <<>>, NoFile)
    ELSE IF Rejected(resize)
    THEN Did(Raise(IntegerError), <<resize>>, NoFile)
    ELSE Did(Return(Encoded("thumbnail")),
             <<resize, JpegCall("quality 80")>>,
             [written |-> TRUE, width |-> Pixels(resize.sizes[1]),
              height |-> Pixels(resize.sizes[2]),
              layers |-> <<Layer(imageBuffer, 0, 0, Pixels(resize.sizes[1]),
                                 Pixels(resize.sizes[2]))>>,
              pad |-> NoPad])

\* variant of generateThumbnail: without the library it throws, as the
\* definition it replaces does
generateThumbnailThrowing(imageBuffer, width, height) ==
    IF Falsy(sharp)
    THEN Did(Throw(SharpMissing, NoError), <<>>, NoFile)
    ELSE ThumbnailOf(imageBuffer,
                     ResizeCall(Default(width, JsNum(300)), Default(height, JsNum(200)),
                                "cover"))

generateThumbnail(imageBuffer, width, height) ==
    IF Falsy(sharp)
    THEN Did(Return(imageBuffer), <<>>, NoFile)
    ELSE ThumbnailOf(imageBuffer,
                     ResizeCall(Default(width, JsNum(300)), Default(height, JsNum(200)),
                                "cover"))

NoThumbnail == Did(NoOutcome, <<>>, NoFile)

\* an HTTP response: res.status(s).json({ success, error })
Response(status, success, error) == [status |-> status, success |-> success, error |-> error]
NoResponse == Response(0, FALSE, NoError)

\* what the handler has done when it responds: the steps, the conversion, the
\* thumbnail step, the response
Handled(s, conversion, thumbnail, r) ==
    [steps |-> s, conversion |-> conversion, thumbnail |-> thumbnail, response |-> r]

\* the handler after convertToPanorama returned: the thumbnail, the clean-up
\* of the input file, the response
AfterConversion(conversion, thumbnail) ==
    IF thumbnail.outcome.kind = "throw"
    THEN Handled(<<"mv", "validateImage", "convertToPanorama", "generateThumbnail">>,
                 conversion, thumbnail, Response(500, FALSE, thumbnail.outcome.error))
    ELSE Handled(<<"mv", "validateImage", "convertToPanorama", "generateThumbnail", "unlink">>,
                 conversion, thumbnail, Response(200, TRUE, NoError))

\* the handler after a valid validation
AfterValidation(conversion) ==
    IF conversion.outcome.kind = "throw"
    THEN Handled(<<"mv", "validateImage", "convertToPanorama">>,
                 conversion, NoThumbnail, Response(500, FALSE, conversion.outcome.error))
    ELSE AfterConversion(conversion,
                         generateThumbnail(JsStr("outputPath"), JsStr("thumbnailPath"),
                                           JsUndefined))

\* the handler for an uploaded photo of an allowed type
ConvertUpload(img, m) ==
    IF ~validateImage(img).isValid
    THEN Handled(<<"mv", "validateImage", "unlink">>, Did(NoOutcome, <<>>, NoFile),
                 NoThumbnail, Response(400, FALSE, <<"Image validation failed">>))
    ELSE AfterValidation(convertToPanorama(img, m))

\* the uploads a request can carry: none, one of a type that is not allowed,
\* or a photo
Uploads == {"none", "text/plain", "image/jpeg"}

\* the buffers a thumbnail is asked of, and the sizes asked for
ThumbnailSources ==
    {Encoded("stitched"), Encoded("panorama"), Encoded("garbage"), FileBytes(1)}
ThumbnailSizes == {JsUndefined, JsNum(400), JsNum(200), JsNum(64)}

----------------------------------------------------------------------------
(* POST /api/conversion/stitch and POST /api/tours *)

\* req.body.method || 'horizontal'
BodyMethod(v) == IF Falsy(v) \/ v = JsStr("") THEN JsStr("horizontal") ELSE v
\* parseFloat(req.body.overlap) || 0.1: no field parses to NaN, and 0 is falsy
BodyOverlap(v) ==
    IF v.t = "undefined" \/ v.x = <<0, 0, 0, 0, 0>> THEN DefaultOverlap ELSE v

\* the fields of a stitching request's body
StitchBodies ==
    [method : {JsUndefined, JsStr("vertical"), JsStr("grid")},
     overlap : {JsUndefined, JsDouble(<<0, 0, 0, 0, 0>>),
                JsDouble(<<52224, 52428, 52428, 19660, 0>>)}]

\* the files a stitching request uploads: none, one or two, or three of one
\* size; every saved file can be read, one may not decode
StitchUploads ==
    {list \in ImageLists :
        /\ \A i \in DOMAIN list : list[i].state # "missing"
        /\ Len(list) > 2 => \A i \in DOMAIN list : list[i] = list[1]}

Repeated(step, n) == [i \in 1..n |-> step]

\* the handler from the call of stitchImages on: clean-up and 500 on
\* failure, else the panorama file, the thumbnail (its failure only logged),
\* the tour entry, the clean-up, the response
StitchHandled(n, stitching, thumbnail) ==
    IF stitching.outcome.kind = "throw"
    THEN Handled(Repeated("mv", n) \o <<"stitchImages">>, stitching, NoThumbnail,
                 Response(500, FALSE, stitching.outcome.error))
    ELSE IF ~stitching.outcome.value.success
    THEN Handled(Repeated("mv", n) \o <<"stitchImages">> \o Repeated("unlink", n),
                 stitching, NoThumbnail,
                 Response(500, FALSE, stitching.outcome.value.error))
    ELSE Handled(Repeated("mv", n) \o <<"stitchImages", "writeFile", "generateThumbnail">>
                    \o (IF thumbnail.outcome.kind = "throw" THEN <<>> ELSE <<"writeFile">>)
                    \o <<"readTours", "writeTours">> \o Repeated("unlink", n),
                 stitching, thumbnail, Response(200, TRUE, NoError))

\* the thumbnail step of the stitching handler
StitchThumbnail(stitching) ==
    generateThumbnail(stitching.outcome.value.imageData, JsUndefined, JsUndefined)

\* the handler for the uploaded images
StitchUpload(list, body) ==
    IF Len(list) = 0
    THEN Handled(<<>>, Did(NoOutcome, <<>>, NoFile), NoThumbnail,
                 Response(400, FALSE, <<"No images uploaded">>))
    ELSE IF Len(list) < 2
    THEN Handled(<<>>, Did(NoOutcome, <<>>, NoFile), NoThumbnail,
                 Response(400, FALSE, <<"At least 2 images required for stitching">>))
    ELSE StitchHandled(Len(list),
                       stitchImages(list, [method |-> BodyMethod(body.method),
                                           overlap |-> BodyOverlap(body.overlap)]),
                       StitchThumbnail(stitchImages(list,
                                          [method |-> BodyMethod(body.method),
                                           overlap |-> BodyOverlap(body.overlap)])))

\* readTours() then data.tours.unshift(newTour) / data.tours.push(newTour)
Unshift(data, tour) == <<tour>> \o data
Push(data, tour) == Append(data, tour)

\* the titles a tour-creating request carries: none or one
Titles == {JsUndefined, JsStr("Loft")}

----------------------------------------------------------------------------
(* The state machine *)

\* one call that has been made: the operation and its arguments
Invocation(name, path, m, dest) == [name |-> name, path |-> path, method |-> m, dest |-> dest]
NoInvocation == Invocation("", "", "", "")

NoResult == Did(NoOutcome, <<>>, NoFile)

\* a client with no request in flight
NoRequest == [pc |-> "idle", route |-> "", id |-> 0, data |-> <<>>]

\* a caller with no call in flight
Idle == [pc |-> "idle", call |-> NoInvocation, result |-> NoResult]

Init ==
    /\ sharp \in {JsNull} \cup {Loaded(b) : b \in SharpBuilds}
    /\ op = "idle"
    /\ image = NoImage
    /\ method = ""
    /\ outcome = NoOutcome
    /\ calls = <<>>
    /\ file = NoFile
    /\ recs = <<>>
    /\ served = 0
    /\ inputs = <<>>
    /\ opts = NoOptions
    /\ steps = <<>>
    /\ thumb = NoThumbnail
    /\ response = NoResponse
    /\ running = [p \in Callers |-> Idle]
    /\ disk = [d \in Destinations |-> NoFile]
    /\ accesses = {}
    /\ tours = <<DemoTour>>
    /\ requests = [w \in Clients |-> NoRequest]

\* a caller awaits panoramaConverter.validateImage(path)
ValidateImage ==
    /\ op = "idle"
    /\ served < MaxRequests
    /\ \E img \in Images :
        /\ image' = img
        /\ outcome' = Return(validateImage(img))
    /\ op' = "validateImage"
    /\ calls' = IF Falsy(sharp) THEN <<>> ELSE <<MetadataCall>>
    /\ UNCHANGED <<tours, requests, running, disk, accesses, sharp, method, file, recs, served, inputs, opts, steps, thumb, response>>

\* POST /api/conversion/validate with a photo: validate the saved upload, then
\* respond with the validation and the recommendations
PostConversionValidate ==
    /\ op = "idle"
    /\ served < MaxRequests
    /\ \E img \in Images :
        LET validation == validateImage(img)
        IN  /\ image' = img
            /\ outcome' = Return(validation)
            /\ recs' = getConversionRecommendations(validation)
    /\ op' = "POST /api/conversion/validate"
    /\ calls' = IF Falsy(sharp) THEN <<>> ELSE <<MetadataCall>>
    /\ UNCHANGED <<tours, requests, running, disk, accesses, sharp, method, file, served, inputs, opts, steps, thumb, response>>

\* a caller awaits panoramaConverter.convertToPanorama(inputPath, outputPath, method)
ConvertToPanorama ==
    /\ op = "idle"
    /\ served < MaxRequests
    /\ \E img \in Images, m \in MethodIds :
        LET r == convertToPanorama(img, m)
        IN  /\ image' = img
            /\ method' = m
            /\ outcome' = r.outcome
            /\ calls' = r.calls
            /\ file' = r.file
    /\ op' = "convertToPanorama"
    /\ UNCHANGED <<tours, requests, running, disk, accesses, sharp, recs, served, inputs, opts, steps, thumb, response>>

\* a caller asks panoramaConverter.getAvailableMethods()
GetAvailableMethods ==
    /\ op = "idle"
    /\ served < MaxRequests
    /\ op' = "getAvailableMethods"
    /\ outcome' = Return(getAvailableMethods)
    /\ UNCHANGED <<tours, requests, running, disk, accesses, sharp, image, method, calls, file, recs, served, inputs, opts, steps, thumb, response>>

\* a caller awaits panoramaConverter.generateThumbnail(imageBuffer[, width[, height]])
GenerateThumbnail ==
    /\ op = "idle"
    /\ served < MaxRequests
    /\ \E source \in ThumbnailSources, w \in ThumbnailSizes, h \in ThumbnailSizes :
        LET r == generateThumbnail(source, w, h)
        IN  /\ inputs' = <<source>>
            /\ opts' = [width |-> w, height |-> h]
            /\ outcome' = r.outcome
            /\ calls' = r.calls
            /\ file' = r.file
    /\ op' = "generateThumbnail"
    /\ UNCHANGED <<tours, requests, running, disk, accesses, sharp, image, method, recs, served, steps, thumb, response>>

\* POST /api/conversion/convert: check the upload, save it, validate it,
\* convert it, make the thumbnail, delete the input, respond
PostConversionConvert ==
    /\ op = "idle"
    /\ served < MaxRequests
    /\ \E upload \in Uploads, img \in Images, m \in MethodIds :
        LET h == CASE upload = "none" ->
                        Handled(<<>>, Did(NoOutcome, <<>>, NoFile), NoThumbnail,
                                Response(400, FALSE, <<"No photo uploaded">>))
                   [] upload = "text/plain" ->
                        Handled(<<>>, Did(NoOutcome, <<>>, NoFile), NoThumbnail,
                                Response(400, FALSE,
                                    <<"Invalid file type. Only JPEG, PNG, and WebP are allowed">>))
                   [] OTHER -> ConvertUpload(img, m)
        IN  /\ image' = IF h.steps = <<>> THEN NoImage ELSE img
            /\ method' = IF h.steps = <<>> THEN "" ELSE m
            /\ outcome' = h.conversion.outcome
            /\ calls' = h.conversion.calls
            /\ file' = h.conversion.file
            /\ steps' = h.steps
            /\ thumb' = h.thumbnail
            /\ response' = h.response
    /\ op' = "POST /api/conversion/convert"
    /\ UNCHANGED <<tours, requests, running, disk, accesses, sharp, recs, served, inputs, opts>>

\* the caller has consumed the result; the process waits for the next request
NextRequest ==
    /\ op # "idle"
    /\ op' = "idle"
    /\ image' = NoImage
    /\ method' = ""
    /\ outcome' = NoOutcome
    /\ calls' = <<>>
    /\ file' = NoFile
    /\ recs' = <<>>
    /\ served' = served + 1
    /\ inputs' = <<>>
    /\ opts' = NoOptions
    /\ steps' = <<>>
    /\ thumb' = NoThumbnail
    /\ response' = NoResponse
    /\ UNCHANGED <<tours, requests, running, disk, accesses, sharp>>

Next ==
    \/ ValidateImage
    \/ PostConversionValidate
    \/ ConvertToPanorama
    \/ GetAvailableMethods
    \/ GenerateThumbnail
    \/ PostConversionConvert
    \/ NextRequest

Spec == Init /\ [][Next]_vars

\* a caller awaits panoramaConverter.stitchImages(images, options)
StitchImages ==
    /\ op = "idle"
    /\ \E list \in ImageLists, o \in StitchOptions :
        LET r == stitchImages(list, o)
        IN  /\ inputs' = list
            /\ opts' = o
            /\ outcome' = r.outcome
            /\ calls' = r.calls
            /\ file' = r.file
    /\ op' = "stitchImages"
    /\ UNCHANGED <<tours, requests, running, disk, accesses, sharp, image, method, recs, served, steps, thumb, response>>

\* the caller has the stitching result; the process is idle again
StitchDelivered ==
    /\ op = "stitchImages"
    /\ op' = "idle"
    /\ inputs' = <<>>
    /\ opts' = NoOptions
    /\ outcome' = NoOutcome
    /\ calls' = <<>>
    /\ file' = NoFile
    /\ UNCHANGED <<tours, requests, running, disk, accesses, sharp, image, method, recs, served, steps, thumb, response>>

StitchNext ==
    \/ StitchImages
    \/ StitchDelivered

\* the process as far as it stitches
StitchSpec == Init /\ [][StitchNext]_vars

\* POST /api/conversion/stitch: check and save the uploads, stitch them, save
\* the panorama and its thumbnail, add the tour, delete the inputs, respond
PostConversionStitch ==
    /\ op = "idle"
    /\ served < MaxRequests
    /\ \E list \in StitchUploads, body \in StitchBodies :
        \E h \in {StitchUpload(list, body)} :
            /\ inputs' = list
            /\ opts' = [method |-> BodyMethod(body.method),
                        overlap |-> BodyOverlap(body.overlap)]
            /\ outcome' = h.conversion.outcome
            /\ calls' = h.conversion.calls
            /\ file' = h.conversion.file
            /\ steps' = h.steps
            /\ thumb' = h.thumbnail
            /\ response' = h.response
            /\ tours' = IF h.response.status = 200 THEN Unshift(tours, served + 1) ELSE tours
    /\ op' = "POST /api/conversion/stitch"
    /\ UNCHANGED <<sharp, image, method, recs, served, requests>>
    /\ UNCHANGED concurrent

\* POST /api/tours: a title is required; read the store, add the tour, write
\* the store, respond
PostTours ==
    /\ op = "idle"
    /\ served < MaxRequests
    /\ \E title \in Titles :
        IF Falsy(title)
        THEN /\ response' = Response(400, FALSE, <<"Title is required">>)
             /\ steps' = <<>>
             /\ tours' = tours
        ELSE /\ response' = Response(200, TRUE, NoError)
             /\ steps' = <<"readTours", "writeTours">>
             /\ tours' = Push(tours, served + 1)
    /\ op' = "POST /api/tours"
    /\ UNCHANGED <<sharp, image, method, outcome, calls, file, recs, served, inputs, opts,
                   thumb, requests>>
    /\ UNCHANGED concurrent

HandlerNext ==
    \/ PostConversionConvert
    \/ PostConversionStitch
    \/ PostTours
    \/ NextRequest

\* the process as far as it answers the requests that convert, stitch and
\* create tours, one request at a time
HandlerSpec == Init /\ [][HandlerNext]_vars

----------------------------------------------------------------------------
(* Engine calls in flight at the same time *)

\* the calls followed: validateImage of either upload, convertToPanorama of
\* the first upload by two methods to either output path, stitchImages of two
\* files, generateThumbnail of a panorama
Invocations ==
    {Invocation("validateImage", p, "", "") : p \in InputPaths}
    \cup {Invocation("convertToPanorama", "upload_1.jpg", m, d) :
             m \in {"cylindrical", "ai_depth"}, d \in Destinations}
    \cup {Invocation("stitchImages", "", "", ""), Invocation("generateThumbnail", "", "", "")}

\* what the call resolves or rejects with, and what it writes
Result(c) ==
    CASE c.name = "validateImage" ->
            Did(Return(validateImage(Uploaded(c.path))),
                IF Falsy(sharp) THEN <<>> ELSE <<MetadataCall>>, NoFile)
      [] c.name = "convertToPanorama" -> convertToPanorama(Uploaded(c.path), c.method)
      [] c.name = "stitchImages" -> stitchImages(StitchedFiles, NoOptions)
      [] OTHER -> generateThumbnail(Encoded("panorama"), JsUndefined, JsUndefined)

\* one access of a caller to a location other callers can reach
Access(p, location, kind) == [call |-> p, location |-> location, kind |-> kind]

\* the locations a call reads: the module-level handle and its input files
Reads(c) ==
    {"sharp"}
    \cup CASE c.name \in {"validateImage", "convertToPanorama"} -> {c.path}
           [] c.name = "stitchImages" -> {StitchedPath(i) : i \in DOMAIN StitchedFiles}
           [] OTHER -> {}

\* variant of Writes: every conversion writes to one fixed path
WritesFixedPath(c, r) ==
    IF c.name = "convertToPanorama" /\ r.file # NoFile THEN {"panorama.jpg"} ELSE {}

\* the locations a call writes: a conversion that gets to .toFile(outputPath)
\* writes its output path; nothing else is written
Writes(c, r) ==
    IF c.name = "convertToPanorama" /\ r.file # NoFile THEN {c.dest} ELSE {}

\* caller p calls an engine operation; it runs up to its first await, having
\* tested the handle
Call(p) ==
    /\ running[p].pc = "idle"
    /\ \E c \in Invocations :
        running' = [running EXCEPT ![p] = [pc |-> "awaiting", call |-> c, result |-> NoResult]]
    /\ accesses' = accesses \cup {Access(p, "sharp", "read")}
    /\ UNCHANGED <<sharp, disk>>
    /\ UNCHANGED sequential
    /\ UNCHANGED store

\* the library work caller p awaits completes: the call resolves or rejects
Settled(p, c, r) ==
    /\ running' = [running EXCEPT ![p] = [pc |-> "settled", call |-> c, result |-> r]]
    /\ disk' = [d \in Destinations |-> IF d \in Writes(c, r) THEN r.file ELSE disk[d]]
    /\ accesses' = accesses \cup {Access(p, l, "read") : l \in Reads(c)}
                            \cup {Access(p, l, "write") : l \in Writes(c, r)}

Settle(p) ==
    /\ running[p].pc = "awaiting"
    /\ Settled(p, running[p].call, Result(running[p].call))
    /\ UNCHANGED sharp
    /\ UNCHANGED sequential
    /\ UNCHANGED store

\* caller p has the result; its call is no longer in flight
Deliver(p) ==
    /\ running[p].pc = "settled"
    /\ running' = [running EXCEPT ![p] = Idle]
    /\ accesses' = {a \in accesses : a.call # p}
    /\ UNCHANGED <<sharp, disk>>
    /\ UNCHANGED sequential
    /\ UNCHANGED store

EngineNext ==
    \E p \in Callers :
        \/ Call(p)
        \/ Settle(p)
        \/ Deliver(p)

\* the process as far as callers overlap
EngineSpec == Init /\ [][EngineNext]_vars

----------------------------------------------------------------------------
(* Tour-adding requests in flight at the same time *)

\* the ids in the store and in the requests in flight
KnownIds ==
    {tours[i] : i \in DOMAIN tours} \cup {requests[w].id : w \in Clients}
\* uuidv4(): an id nothing else has
FreshId == 1 + Max(KnownIds \cup {DemoTour})

\* a request of client w to a route that adds a tour has come as far as
\* `await readTours()`
Begin(w) ==
    /\ requests[w].pc = "idle"
    /\ FreshId <= MaxTours
    /\ \E route \in TourRoutes :
        requests' = [requests EXCEPT ![w] =
                        [pc |-> "reading", route |-> route, id |-> FreshId, data |-> <<>>]]
    /\ UNCHANGED <<sharp, tours>>
    /\ UNCHANGED sequential
    /\ UNCHANGED concurrent

\* the new tour added to the data the request has read
AddTour(route, data, tour) ==
    IF route = "POST /api/tours" THEN Push(data, tour) ELSE Unshift(data, tour)

\* readTours() resolves with the store as it is now; the handler builds the
\* new tour, adds it to what it has read and calls writeTours(data)
ReadTours(w) ==
    /\ requests[w].pc = "reading"
    /\ requests' = [requests EXCEPT ![w].pc = "writing", ![w].data = tours]
    /\ UNCHANGED <<sharp, tours>>
    /\ UNCHANGED sequential
    /\ UNCHANGED concurrent

\* writeTours(data) replaces the store with the data of the request plus its
\* tour; the handler responds with success
WriteTours(w) ==
    /\ requests[w].pc = "writing"
    /\ tours' = AddTour(requests[w].route, requests[w].data, requests[w].id)
    /\ requests' = [requests EXCEPT ![w].pc = "responded"]
    /\ UNCHANGED sharp
    /\ UNCHANGED sequential
    /\ UNCHANGED concurrent

\* the client has the response
Finish(w) ==
    /\ requests[w].pc = "responded"
    /\ requests' = [requests EXCEPT ![w] = NoRequest]
    /\ UNCHANGED <<sharp, tours>>
    /\ UNCHANGED sequential
    /\ UNCHANGED concurrent

ToursNext ==
    \E w \in Clients :
        \/ Begin(w)
        \/ ReadTours(w)
        \/ WriteTours(w)
        \/ Finish(w)

\* the process as far as requests add tours while others do
ToursSpec == Init /\ [][ToursNext]_vars

----------------------------------------------------------------------------
(* Properties *)

Converted == op = "convertToPanorama"
Validated == op \in {"validateImage", "POST /api/conversion/validate"}
Available == ~Falsy(sharp)
Range(q) == {q[i] : i \in DOMAIN q}

\* C1: whenever convertToPanorama returns for perspective, cylindrical or
\* tile_repeat, the dimensions of its result are exactly 4096 x 2048, whatever
\* the width and height of the source.
C1_CanonicalDimensions ==
    (Converted /\ method \in {"perspective", "cylindrical", "tile_repeat"}
               /\ outcome.kind = "return")
    => outcome.value.dimensions = [width |-> 4096, height |-> 2048]

\* a cylindrical conversion of a 400 x 1601 source has returned
C1_Witness ==
    /\ Converted /\ method = "cylindrical" /\ outcome.kind = "return"
    /\ image.width = 400 /\ image.height = 1601

\* C2: in perspective and cylindrical conversion of a decodable image, the
\* resized region and its border are whole pixels with width + left + right =
\* 4096, height + top + bottom = 2048, left = right and top = bottom.
C2_PaddingFillsCanvas ==
    (Converted /\ method \in {"perspective", "cylindrical"} /\ Available /\ image.decodable)
    => /\ file.written
       /\ Len(file.layers) = 1
       /\ file.layers[1].width + file.pad.left + file.pad.right = 4096
       /\ file.layers[1].height + file.pad.top + file.pad.bottom = 2048
       /\ file.pad.left = file.pad.right
       /\ file.pad.top = file.pad.bottom

\* the layers of the output that cover column x
Covering(x) ==
    {k \in DOMAIN file.layers :
        file.layers[k].left <= x /\ x < file.layers[k].left + file.layers[k].width}

\* where column x of the output comes from: which buffer, which of its columns
ColumnSource(x) ==
    LET k == CHOOSE k \in Covering(x) : TRUE
    IN  <<file.layers[k].input, x - file.layers[k].left>>

\* C3: a successful tile_repeat paints the one 1024 x 2048 tile at left 0,
\* 1024, 2048 and 3072, top 0; every column of the 4096 x 2048 canvas is
\* covered by exactly one tile, and each quarter-width strip equals the next.
C3_FourIdenticalStrips ==
    (Converted /\ method = "tile_repeat" /\ outcome.kind = "return")
    => /\ file.width = 4096 /\ file.height = 2048
       /\ Len(file.layers) = 4
       /\ \A k \in 1..4 :
            /\ file.layers[k].left = (k - 1) * 1024
            /\ file.layers[k].top = 0
            /\ file.layers[k].width = 1024
            /\ file.layers[k].height = 2048
            /\ file.layers[k].input = file.layers[1].input
       /\ \A x \in 0..4095 : Cardinality(Covering(x)) = 1
       /\ \A x \in 0..3071 : ColumnSource(x) = ColumnSource(x + 1024)

\* a tile_repeat conversion has written its four tiles
C3_Witness ==
    /\ Converted /\ method = "tile_repeat" /\ outcome.kind = "return"
    /\ file.written /\ Len(file.layers) = 4

\* C4: with a method id that is none of the four, convertToPanorama does what
\* it does for 'perspective' on the same file: the same result or the same
\* error, the same library calls, the same output; a result names 'perspective'.
C4_UnknownIsPerspective ==
    (Converted /\ method \notin Methods)
    => /\ Did(outcome, calls, file) = convertToPanorama(image, "perspective")
       /\ outcome.kind = "return" => outcome.value.method = "perspective"

\* an unknown method id was converted with the library loaded
C4_Witness ==
    Converted /\ method = "fisheye" /\ Available /\ image.decodable

ExpectedIssues(img) ==
    (IF img.width < 800 \/ img.height < 600 THEN <<ResolutionIssue>> ELSE <<>>)
    \o (IF 2 * img.width < img.height \/ img.width > 4 * img.height
        THEN <<AspectIssue>> ELSE <<>>)
    \o (IF img.size > 52428800 THEN <<SizeIssue>> ELSE <<>>)

\* C6: for a decodable file and a loaded library, isValid is false exactly
\* when width < 800 or height < 600 or the file is larger than 50 MiB, and
\* issues holds the resolution, aspect-ratio and size messages that apply, once
\* each and in that order.
C6_ValidationRules ==
    (Validated /\ Available /\ image.decodable)
    => /\ outcome.value.isValid
            = ~(image.width < 800 \/ image.height < 600 \/ image.size > 52428800)
       /\ outcome.value.issues = ExpectedIssues(image)

\* C7 as claimed: a report with isValid = false carries the resolution message
\* or the size message.
C7_InvalidOnlyByHardConstraint ==
    (Validated /\ ~outcome.value.isValid)
    => \/ ResolutionIssue \in Range(outcome.value.issues)
       \/ SizeIssue \in Range(outcome.value.issues)

\* C7 as amended: a report with isValid = false carries the resolution message
\* or the size message, or it is the report of a file that could not be
\* decoded: metadata null and the one issue 'Image validation failed: <cause>'.
C7_InvalidByHardConstraintOrDecode ==
    (Validated /\ ~outcome.value.isValid)
    => \/ ResolutionIssue \in Range(outcome.value.issues)
       \/ SizeIssue \in Range(outcome.value.issues)
       \/ /\ outcome.value.metadata = JsNull
          /\ Len(outcome.value.issues) = 1
          /\ outcome.value.issues[1][1] = "Image validation failed"
          /\ ~image.decodable

\* a report is invalid because the file did not decode
C7_Witness ==
    Validated /\ ~outcome.value.isValid /\ outcome.value.metadata = JsNull

\* C8: without the library, validateImage returns (it does not throw) a report
\* with isValid = true, the one degraded-validation issue, and metadata whose
\* width, height, format and size are each the string 'unknown'.
C8_DegradedReport ==
    (Validated /\ ~Available)
    => /\ outcome.kind = "return"
       /\ outcome.value.isValid
       /\ outcome.value.issues = <<LimitedIssue>>
       /\ \A v \in {outcome.value.metadata.width, outcome.value.metadata.height,
                    outcome.value.metadata.format, outcome.value.metadata.size} :
            v.t = "string" /\ v.s = "unknown"

\* without the library, a file that does not even decode was validated
C8_Witness ==
    Validated /\ ~Available /\ ~image.decodable /\ outcome.kind = "return"

\* C9: the validate handler derives no recommendation from the 'unknown'
\* width and height of a degraded report: it sends none.
C9_NoRecommendationFromUnknown ==
    (op = "POST /api/conversion/validate" /\ ~Available) => recs = <<>>

\* the recommendations the claim describes for a numeric width and height
ExpectedRecommendations(w, h) ==
    (IF w > 2 * h THEN <<WideRec>>
     ELSE IF 5 * w < 4 * h THEN <<TallRec>>
     ELSE <<StandardRec>>)
    \o (IF w >= 2048 THEN <<HighResRec>> ELSE <<>>)

\* C10: the recommendations are a function of the report alone: none for null
\* metadata; otherwise one aspect entry (wide above 2.0, tall below 0.8,
\* standard otherwise, which is where a non-numeric width or height falls),
\* then ai_depth exactly when width >= 2048; so one or two entries.
C10_Recommendations ==
    (op = "POST /api/conversion/validate")
    => LET md == outcome.value.metadata
       IN  /\ md = JsNull => recs = <<>>
           /\ (md # JsNull /\ md.width.t = "number") =>
                recs = ExpectedRecommendations(image.width, image.height)
           /\ (md # JsNull /\ md.width.t # "number") => recs = <<StandardRec>>
           /\ md # JsNull => Len(recs) \in {1, 2}

\* a 1200 x 600 file (ratio exactly 2.0) got the standard entry alone, and
\* so did not count as wide
C10_Witness ==
    /\ op = "POST /api/conversion/validate" /\ Available /\ image.decodable
    /\ image.width = 1200 /\ image.height = 600
    /\ recs = <<StandardRec>>

\* the positions of a list of descriptors whose field f is true
Flagged(list, f) == {i \in DOMAIN list : list[i][f] = JsTrue}

\* C11: getAvailableMethods returns four descriptors with ids perspective,
\* cylindrical, tile_repeat, ai_depth in that order, whether or not the library
\* is loaded; exactly one is recommended, the perspective one, and exactly one
\* is premium, the ai_depth one.
C11_MethodList ==
    (op = "getAvailableMethods")
    => /\ outcome.kind = "return"
       /\ Len(outcome.value) = 4
       /\ [i \in 1..4 |-> outcome.value[i].id]
            = <<"perspective", "cylindrical", "tile_repeat", "ai_depth">>
       /\ Flagged(outcome.value, "recommended") = {1}
       /\ Flagged(outcome.value, "premium") = {4}

\* the list was asked for in a process that has no image library
C11_Witness ==
    op = "getAvailableMethods" /\ ~Available /\ outcome.kind = "return"

----------------------------------------------------------------------------
(* Properties of the stitcher *)

Stitching == op = "stitchImages"
StitchOk == Stitching /\ outcome.kind = "return" /\ outcome.value.success
\* the layout and the overlap in force, defaults applied
Layout == Default(opts.method, JsStr("horizontal")).s
Overlap == Default(opts.overlap, DefaultOverlap).x
InputWidths == [i \in DOMAIN inputs |-> inputs[i].width]
InputHeights == [i \in DOMAIN inputs |-> inputs[i].height]

\* C12: with fewer than two images stitchImages resolves to success = false
\* and the error 'At least 2 images required for stitching', for every layout
\* and with or without the library; it reads no file and carries no image data.
C12_TooFewImages ==
    (Stitching /\ Len(inputs) < 2)
    => /\ outcome.kind = "return"
       /\ ~outcome.value.success
       /\ outcome.value.error = <<"At least 2 images required for stitching">>
       /\ outcome.value.imageData = JsUndefined
       /\ calls = <<>>

\* one image, which is not even on disk, was given for an unsupported layout
\* in a process without the library
C12_Witness ==
    /\ Stitching /\ ~Available /\ Len(inputs) = 1 /\ inputs[1].state = "missing"
    /\ Layout = "grid" /\ outcome.kind = "return"

\* C13: stitchImages never throws: for every input, with or without the
\* library, it resolves to an object with a boolean success; when success is
\* false the object has a non-empty error string and no image data.
C13_NeverThrows ==
    Stitching
    => /\ outcome.kind = "return"
       /\ outcome.value.success \in BOOLEAN
       /\ ~outcome.value.success =>
            /\ outcome.value.error # <<>>
            /\ outcome.value.error[1] # ""
            /\ outcome.value.imageData = JsUndefined

\* with the library loaded, the second of three files did not decode and
\* the rejection became a failure result
C13_Witness ==
    /\ Stitching /\ Available /\ Len(inputs) = 3 /\ inputs[2].state = "corrupt"
    /\ Layout \in Layouts
    /\ outcome.kind = "return" /\ ~outcome.value.success
    /\ outcome.value.error = DecodeError

\* the sum of the first i sizes
RECURSIVE SumTo(_, _)
SumTo(sizes, i) == IF i = 0 THEN 0 ELSE SumTo(sizes, i - 1) + sizes[i]

\* the overlap as the decimal fraction p / q it is written as
Decimal(o) ==
    CASE o = <<0, 0, 0, 0, 0>> -> <<0, 1>>
      [] o = DefaultOverlap.x -> <<1, 10>>
      [] o = <<52224, 52428, 52428, 19660, 0>> -> <<3, 10>>
      [] o = <<0, 0, 0, 32768, 0>> -> <<1, 2>>

\* round(n / q), a half rounding up
RoundRatio(n, q) == (2 * n + q) \div (2 * q)

\* round(size_1 * (1 - o) + ... + size_i * (1 - o) + extra * o) in exact
\* arithmetic, o being the decimal fraction
RoundedDecimal(sizes, o, i, extra) ==
    LET d == Decimal(o)
    IN  RoundRatio(SumTo(sizes, i) * (d[2] - d[1]) + extra * d[1], d[2])

\* the same, o being the double that was passed
RECURSIVE ExactAccumulated(_, _, _)
ExactAccumulated(sizes, o, i) ==
    IF i = 0 THEN DblInt(0)
    ELSE DblSum(ExactAccumulated(sizes, o, i - 1),
                DblTimes(sizes[i], DblDiff(DblInt(1), o)))
RoundedExact(sizes, o, i, extra) ==
    MathRound(DblSum(ExactAccumulated(sizes, o, i), DblTimes(extra, o)))

\* what round(...) of the claimed formulas can mean
Rounded(sizes, o, i, extra) ==
    {RoundedDecimal(sizes, o, i, extra), RoundedExact(sizes, o, i, extra)}

\* C14: a successful horizontal stitch of N >= 2 images with overlap o reports
\* the canvas height max_i height_i and the canvas width
\* round(sum_i width_i * (1 - o) + width_last * o).
C14_HorizontalCanvas ==
    (StitchOk /\ Available /\ Layout = "horizontal")
    => /\ outcome.value.dimensions.height = JsNum(Max({h : h \in Range(InputHeights)}))
       /\ outcome.value.dimensions.width.n
            \in Rounded(InputWidths, Overlap, Len(inputs), inputs[Len(inputs)].width)

\* C15: in a horizontal stitch image 1 is placed at left 0 and image i at
\* left round(sum_{j<i} width_j * (1 - o)); the lefts do not decrease; each
\* image is centred vertically, top = round((canvasHeight - height_i) / 2).
C15_HorizontalPlacement ==
    (StitchOk /\ Available /\ Layout = "horizontal")
    => /\ file.layers[1].left = 0
       /\ \A i \in DOMAIN inputs :
            /\ file.layers[i].left \in Rounded(InputWidths, Overlap, i - 1, 0)
            /\ file.layers[i].top = RoundRatio(file.height - inputs[i].height, 2)
       /\ \A i \in 1..(Len(inputs) - 1) : file.layers[i].left <= file.layers[i + 1].left

\* C16: in a horizontal stitch the last image is never cut off: its left plus
\* its full width is the canvas width.
C16_LastImageFits ==
    (StitchOk /\ Available /\ Layout = "horizontal")
    => file.layers[Len(inputs)].left + inputs[Len(inputs)].width = file.width

\* the images with width and height exchanged
Transposed(list) ==
    [i \in DOMAIN list |->
        [width |-> list[i].height, height |-> list[i].width, state |-> list[i].state]]

\* C17: verticalStitch is horizontalStitch with width and height exchanged: on
\* the same images and overlap it succeeds exactly when horizontalStitch does
\* on the transposed images, its canvas (width, height) is that one's (height,
\* width), and each image's (left, top) is that one's (top, left).
C17_VerticalIsTransposed ==
    (Stitching /\ Available /\ Layout = "vertical" /\ Len(inputs) >= 2)
    => LET h == horizontalStitch(Transposed(inputs), Overlap)
       IN  /\ outcome.value.success <=> h.outcome.kind = "return"
           /\ outcome.value.success =>
                /\ outcome.value.dimensions.width = h.outcome.value.dimensions.height
                /\ outcome.value.dimensions.height = h.outcome.value.dimensions.width
                /\ file.width = h.file.height /\ file.height = h.file.width
                /\ \A i \in DOMAIN inputs :
                    /\ file.layers[i].left = h.file.layers[i].top
                    /\ file.layers[i].top = h.file.layers[i].left
                    /\ file.layers[i].input = h.file.layers[i].input

\* three images of three different sizes were stacked with overlap 0.3
C17_Witness ==
    /\ StitchOk /\ Available /\ Layout = "vertical" /\ Len(inputs) = 3
    /\ Overlap = <<52224, 52428, 52428, 19660, 0>>
    /\ Cardinality(Range(InputWidths)) = 3
    /\ file.layers[3].top > file.layers[2].top /\ file.layers[2].top > 0

\* C18: a successful panoramic stitch reports width = max(width of the
\* horizontal stitch, 4096), so at least 4096, and height = width / 2.
C18_PanoramicTarget ==
    (StitchOk /\ Available /\ Layout = "panoramic")
    => LET h == horizontalStitch(inputs, Overlap).outcome.value.dimensions
           d == outcome.value.dimensions
       IN  /\ d.width = JsNum(IF h.width.n > 4096 THEN h.width.n ELSE 4096)
           /\ d.width.n >= 4096
           /\ 2 * d.height.n = d.width.n * d.height.d

\* a panoramic stitch wider than 4096 has succeeded
C18_Witness ==
    /\ StitchOk /\ Available /\ Layout = "panoramic"
    /\ outcome.value.dimensions.width.n > 4096

\* C19: without the library and with N >= 2 images of which the first can be
\* read, stitchImages computes no size or placement: it resolves to success =
\* true, the bytes of the first file as image data, dimensions 4096 x 2048 and
\* method = layout + '_fallback'.
C19_Fallback ==
    (Stitching /\ ~Available /\ Len(inputs) >= 2
               /\ \A i \in DOMAIN inputs : inputs[i].state # "missing")
    => /\ outcome.kind = "return"
       /\ outcome.value.success
       /\ outcome.value.imageData = FileBytes(1)
       /\ outcome.value.dimensions = [width |-> JsNum(4096), height |-> JsNum(2048)]
       /\ outcome.value.method = JsConcat(Layout, "_fallback")
       /\ calls = <<ReadFileCall(1)>>
       /\ file = NoFile

\* without the library three images were given for the vertical layout
C19_Witness ==
    /\ Stitching /\ ~Available /\ Len(inputs) = 3 /\ Layout = "vertical"
    /\ outcome.kind = "return" /\ outcome.value.success

----------------------------------------------------------------------------
(* Properties of the thumbnail generator *)

\* C20: with the library loaded, a thumbnail generated without an explicit
\* size is exactly 400 x 200 whatever the source; and when the convert handler
\* got a result from convertToPanorama, its thumbnail step yields a 400 x 200
\* thumbnail.
C20_ThumbnailSize ==
    /\ (op = "generateThumbnail" /\ Available /\ outcome.kind = "return"
            /\ opts.width = JsUndefined /\ opts.height = JsUndefined)
       => file.width = 400 /\ file.height = 200
    /\ (op = "POST /api/conversion/convert" /\ Available /\ outcome.kind = "return")
       => /\ thumb.outcome.kind = "return"
          /\ thumb.file.width = 400 /\ thumb.file.height = 200

\* C21: without the library generateThumbnail returns the very bytes it was
\* given, not resized, for every requested width and height; it does not throw
\* and makes no library call.
C21_DegradedThumbnail ==
    (op = "generateThumbnail" /\ ~Available)
    => /\ outcome = Return(inputs[1])
       /\ calls = <<>>
       /\ file = NoFile

\* without the library a 64 x 400 thumbnail was asked of bytes that do not decode
C21_Witness ==
    /\ op = "generateThumbnail" /\ ~Available
    /\ inputs = <<Encoded("garbage")>>
    /\ opts = [width |-> JsNum(64), height |-> JsNum(400)]
    /\ outcome.kind = "return"

\* the four engine operations called directly
EngineCall ==
    op \in {"validateImage", "convertToPanorama", "stitchImages", "generateThumbnail"}

\* C22: without the library none of validateImage, convertToPanorama (whatever
\* the method id), stitchImages and generateThumbnail throws: each call
\* completes with a returned value.
C22_NeverThrowsWithoutLibrary ==
    (EngineCall /\ ~Available) => outcome.kind = "return"

\* the name a failure message gives each conversion method
FailureName(m) ==
    CASE m = "perspective" -> "Perspective conversion failed"
      [] m = "ai_depth"    -> "AI depth conversion failed"
      [] m = "cylindrical" -> "Cylindrical conversion failed"
      [] m = "tile_repeat" -> "Tile repeat conversion failed"
      [] OTHER             -> "conversion failed"
FailureNames == {FailureName(m) : m \in Methods}

\* convertToPanorama or generateThumbnail raised an error
Raised == op \in {"convertToPanorama", "generateThumbnail"} /\ outcome.kind = "throw"

\* C23: every error convertToPanorama or generateThumbnail raises reads
\* "<method> conversion failed: <cause>": it starts with the failure name of a
\* conversion method, of the requested one when a known method was requested,
\* and goes on with the message of the underlying error.
C23_FailureShape ==
    Raised
    => /\ Len(outcome.error) >= 2
       /\ outcome.error[1] \in FailureNames
       /\ (op = "convertToPanorama" /\ method \in Methods)
          => outcome.error[1] = FailureName(method)

\* the callers with a call in flight, and those whose call has settled
InFlight == {p \in Callers : running[p].pc # "idle"}
HasSettled == {p \in Callers : running[p].pc = "settled"}
\* no two calls in flight were given the same output path
DistinctDestinations ==
    \A p, q \in InFlight :
        (p # q /\ running[p].call.dest # "")
        => running[p].call.dest # running[q].call.dest
\* pairs of accesses by different callers to one location, one of them a write
Conflicts ==
    {pair \in accesses \X accesses :
        /\ pair[1].call # pair[2].call
        /\ pair[1].location = pair[2].location
        /\ pair[1].kind = "write"}

Handling == op \in {"POST /api/conversion/convert", "POST /api/conversion/stitch"}
\* the positions of a step among those the handler took
Positions(names) == {j \in DOMAIN steps : steps[j] \in names}
\* the conversion or stitching of the handler returned success
EngineSucceeded ==
    /\ outcome.kind = "return"
    /\ op = "POST /api/conversion/stitch" => outcome.value.success

\* C25: a handler calls the converter or the stitcher only after it has run
\* the validator, and the thumbnail generator only after the converter or the
\* stitcher has returned success.
C25_HandlerOrder ==
    Handling
    => /\ \A j \in Positions({"convertToPanorama", "stitchImages"}) :
            \E i \in Positions({"validateImage"}) : i < j
       /\ \A j \in Positions({"generateThumbnail"}) :
            /\ \E i \in Positions({"convertToPanorama", "stitchImages"}) : i < j
            /\ EngineSucceeded

\* C26: in a horizontal or vertical stitch every image's placement rectangle
\* lies inside the canvas: 0 <= left, left + width <= canvas width, 0 <= top,
\* top + height <= canvas height.
C26_PlacementInsideCanvas ==
    (StitchOk /\ Available /\ Layout \in {"horizontal", "vertical"})
    => \A i \in DOMAIN inputs :
        /\ 0 <= file.layers[i].left
        /\ file.layers[i].left + inputs[i].width <= file.width
        /\ 0 <= file.layers[i].top
        /\ file.layers[i].top + inputs[i].height <= file.height

\* a whole positive pixel count
WholePixels(v) == IsInteger(v) /\ v.n * v.d > 0
\* the resize calls the operation issued
ResizeCalls == {calls[i] : i \in {j \in DOMAIN calls : calls[j].fn = "resize"}}

\* C27: the target size panoramicStitch passes to resize, and reports in
\* dimensions when it succeeds, is made of whole positive pixel counts with
\* targetWidth = 2 * targetHeight.
C27_PanoramicTargetWhole ==
    (Stitching /\ Available /\ Layout = "panoramic")
    => /\ \A c \in ResizeCalls :
            /\ WholePixels(c.sizes[1])
            /\ WholePixels(c.sizes[2])
            /\ c.sizes[1].n * c.sizes[2].d = 2 * c.sizes[2].n * c.sizes[1].d
       /\ StitchOk
          => /\ WholePixels(outcome.value.dimensions.width)
             /\ WholePixels(outcome.value.dimensions.height)

\* C28: for two or more images a layout other than horizontal, vertical and
\* panoramic yields { success: false, error: 'Unsupported stitching method:
\* <layout>' }, with the library and without it.
C28_UnsupportedLayout ==
    (Stitching /\ Len(inputs) >= 2 /\ Layout \notin Layouts)
    => outcome = Return(StitchFailure(UnsupportedMethod(Layout)))

\* C29: whenever the convert handler has saved the temporary input file, it
\* has deleted it by the time it responds, on every exit path.
C29_InputDeleted ==
    (op = "POST /api/conversion/convert" /\ Positions({"mv"}) # {})
    => \E j \in Positions({"unlink"}) : \A i \in Positions({"mv"}) : i < j

\* the clients whose request has responded with success
Responded == {w \in Clients : requests[w].pc = "responded"}

\* C30: when two tour-adding requests have both responded with success, the
\* store contains both new tours, whatever the order of their readTours and
\* writeTours steps.
C30_NoTourLost ==
    \A v, w \in Responded :
        v # w => {requests[v].id, requests[w].id} \subseteq {tours[i] : i \in DOMAIN tours}

====
